---------------------------- MODULE Spec2Model ----------------------------
(***************************************************************************)
(* A model of the pi-wakatime extension (index.ts): the session state the  *)
(* extension keeps, its five lifecycle event handlers, its four commands   *)
(* and the helpers they call (loadConfig, findGitDir, countLines,          *)
(* sendHeartbeat, isApiKeyConfigured, saveApiKey, isValidApiKey).          *)
(*                                                                         *)
(* Conventions.  A JavaScript value that may be undefined/null is a        *)
(* sequence of length 0 (None) or 1 (Some(v)).  A file-system path is the  *)
(* sequence of its segments below the root.  A text (file content of a     *)
(* write/edit, an API key) is the sequence of its characters, "\n" being   *)
(* the character NL.  The credentials file is the sequence of its lines    *)
(* (content.split("\n")), each line a record.                              *)
(***************************************************************************)
EXTENDS Integers, Sequences, FiniteSets, TLC

---------------------------------------------------------------------------
(* Optional values and JavaScript truthiness                               *)

None == <<>>
Some(v) == <<v>>
IsSome(o) == o # <<>>
Val(o) == o[1]

\* `if (s)` for a string-or-undefined s: undefined and "" are falsy.
Truthy(o) == IsSome(o) /\ Val(o) # ""

\* The same for a text, a sequence of characters.
TruthyText(o) == IsSome(o) /\ Val(o) # <<>>

\* The same for a path argument: "" is the relative path of no segments.
TruthyPath(o) == IsSome(o) /\ (Val(o).abs \/ Val(o).segs # <<>>)

\* `a || b` for two optional strings.
OrElse(a, b) == IF Truthy(a) THEN a ELSE b

---------------------------------------------------------------------------
(* Texts                                                                   *)

NL == "\n"

RECURSIVE split(_)
\* content.split("\n"): the newline-delimited segments of a text.
split(content) ==
  IF \A i \in 1..Len(content) : content[i] # NL
    THEN <<content>>
    ELSE LET i == CHOOSE k \in 1..Len(content) :
                    content[k] = NL /\ \A j \in 1..(k-1) : content[j] # NL
         IN <<SubSeq(content, 1, i-1)>> \o split(SubSeq(content, i+1, Len(content)))

\* countLines: content.split("\n").length
countLines(content) == Len(split(content))

\* Math.abs(a - b)
abs(n) == IF n >= 0 THEN n ELSE -n

---------------------------------------------------------------------------
(* Paths                                                                   *)

Home == <<"home", "u">>

dirname(p) == IF p = <<>> THEN <<>> ELSE SubSeq(p, 1, Len(p) - 1)

basename(p) == IF p = <<>> THEN "" ELSE p[Len(p)]

RECURSIVE normalize(_, _)
\* The segments `todo` appended to the absolute path `done`, ".." stepping
\* up one level (and staying at the root), as path.resolve / path.join do.
normalize(done, todo) ==
  IF todo = <<>> THEN done
  ELSE IF Head(todo) = ".." THEN normalize(dirname(done), Tail(todo))
  ELSE normalize(Append(done, Head(todo)), Tail(todo))

\* A path argument: [abs |-> is it absolute, segs |-> its segments]; the
\* empty string is the relative path without segments.
isAbsolute(fp) == fp.abs

\* path.resolve(cwd, fp) for an absolute cwd.
resolve(cwd, fp) ==
  IF fp.abs THEN normalize(<<>>, fp.segs) ELSE normalize(cwd, fp.segs)

\* path.join(p, name) for a path argument p.
join(fp, name) == [abs |-> fp.abs, segs |-> Append(fp.segs, name)]

\* A configured cliPath: [tilde |-> does it start with "~", segs |-> segments].
expandTilde(cp) ==
  IF cp.tilde THEN [tilde |-> FALSE, segs |-> Home \o cp.segs] ELSE cp

---------------------------------------------------------------------------
(* API keys.  A key is held as a string; the patterns are matched against  *)
(* its characters, which Chars gives.                                      *)

Uuid == "12345678-1234-1234-1234-123456789012"
UuidUpper == "ABCDEF00-abcd-1234-1234-123456789012"
WakaKey == "waka_12345678-1234-1234-1234-123456789012"
NotAKey == "not-a-key"
ShortUuid == "12345678-1234-1234-1234-12345678901"
LongUuid == "12345678-1234-1234-1234-123456789012\n"
BadPrefix == "waka-12345678-1234-1234-1234-123456789012"
OldKey == "old"

UuidChars ==
  <<"1","2","3","4","5","6","7","8","-","1","2","3","4","-","1","2","3","4",
    "-","1","2","3","4","-","1","2","3","4","5","6","7","8","9","0","1","2">>

Chars(key) ==
  CASE key = Uuid -> UuidChars
    [] key = UuidUpper ->
         <<"A","B","C","D","E","F","0","0","-","a","b","c","d">> \o SubSeq(UuidChars, 14, 36)
    [] key = WakaKey -> <<"w","a","k","a","_">> \o UuidChars
    [] key = NotAKey -> <<"n","o","t","-","a","-","k","e","y">>
    [] key = ShortUuid -> SubSeq(UuidChars, 1, 35)
    [] key = LongUuid -> Append(UuidChars, "\n")
    [] key = BadPrefix -> <<"w","a","k","a","-">> \o UuidChars
    [] key = OldKey -> <<"o","l","d">>
    [] key = "" -> <<>>

HexChars == {"0","1","2","3","4","5","6","7","8","9",
             "a","b","c","d","e","f","A","B","C","D","E","F"}

\* /^[0-9a-f]{8}-[0-9a-f]{4}-[0-9a-f]{4}-[0-9a-f]{4}-[0-9a-f]{12}$/i
uuidPattern(cs) ==
  /\ Len(cs) = 36
  /\ \A i \in 1..36 :
       IF i \in {9, 14, 19, 24} THEN cs[i] = "-" ELSE cs[i] \in HexChars

\* /^waka_[0-9a-f]{8}-...-[0-9a-f]{12}$/i
wakaPattern(cs) ==
  /\ Len(cs) = 41
  /\ cs[1] \in {"w", "W"} /\ cs[2] \in {"a", "A"}
  /\ cs[3] \in {"k", "K"} /\ cs[4] \in {"a", "A"} /\ cs[5] = "_"
  /\ uuidPattern(SubSeq(cs, 6, 41))

isValidApiKey_any(key) == TRUE

isValidApiKey(key) == uuidPattern(Chars(key)) \/ wakaPattern(Chars(key))

---------------------------------------------------------------------------
(* The credentials file ~/.wakatime.cfg                                    *)

\* The lines a credentials file is made of.
SectionLine(name) == [t |-> "section", name |-> name, v |-> ""]
KeyLine(apiKey)   == [t |-> "key", name |-> "api_key", v |-> apiKey]
BlankLine         == [t |-> "blank", name |-> "", v |-> ""]
OtherLine(name)   == [t |-> "other", name |-> name, v |-> ""]

\* /^\s*api_key\s*=/ anchored at the start of this line
matchesApiKey(line) == line.t = "key"

\* /^\[settings\]/ anchored at the start of this line
matchesSettings(line) == line.t = "section" /\ line.name = "settings"

\* a line \s* runs through (it holds white space only)
isWhitespace(line) == line.t = "blank"

\* /^\s*api_key\s*=/m.test(content)
testApiKey(lines) == \E i \in 1..Len(lines) : matchesApiKey(lines[i])

\* /^\[settings\]/m.test(content)
testSettings(lines) == \E i \in 1..Len(lines) : matchesSettings(lines[i])

\* content.replace(/^\s*api_key\s*=.*/m, `api_key = ${apiKey}`): the first
\* match starts at the first line start from which \s* reaches an api_key
\* line, so it takes the white-space lines right above that line with it.
replaceApiKey(lines, apiKey) ==
  LET j == CHOOSE k \in 1..Len(lines) :
             matchesApiKey(lines[k]) /\ \A m \in 1..(k-1) : ~matchesApiKey(lines[m])
      i == CHOOSE k \in 1..j :
             /\ \A m \in k..(j-1) : isWhitespace(lines[m])
             /\ \A k2 \in 1..(k-1) : \E m \in k2..(j-1) : ~isWhitespace(lines[m])
  IN SubSeq(lines, 1, i-1) \o <<KeyLine(apiKey)>> \o SubSeq(lines, j+1, Len(lines))

\* content.replace(/^\[settings\]/m, `[settings]\napi_key = ${apiKey}`)
insertAfterSettings(lines, apiKey) ==
  LET i == CHOOSE k \in 1..Len(lines) :
             matchesSettings(lines[k]) /\ \A m \in 1..(k-1) : ~matchesSettings(lines[m])
  IN SubSeq(lines, 1, i) \o <<KeyLine(apiKey)>> \o SubSeq(lines, i+1, Len(lines))

\* `[settings]\napi_key = ${apiKey}\n\n${content}`
prependSettings(lines, apiKey) ==
  <<SectionLine("settings"), KeyLine(apiKey), BlankLine>> \o lines

\* `[settings]\napi_key = ${apiKey}\n`
newConfigFile(apiKey) == <<SectionLine("settings"), KeyLine(apiKey), BlankLine>>

\* saveApiKey(apiKey): [ok |-> the value returned, file |-> the credentials
\* file afterwards].  `file` is the file before (None: it does not exist);
\* fsOk is whether the file-system calls (readFileSync, writeFileSync)
\* succeed: if one throws, the catch returns false and nothing was written.
saveApiKey_append(file, apiKey, fsOk) ==
  IF ~fsOk THEN [ok |-> FALSE, file |-> file]
  ELSE [ok |-> TRUE,
        file |-> Some(IF IsSome(file) THEN prependSettings(Val(file), apiKey)
                      ELSE newConfigFile(apiKey))]

saveApiKey(file, apiKey, fsOk) ==
  IF ~fsOk THEN [ok |-> FALSE, file |-> file]
  ELSE [ok |-> TRUE,
        file |-> Some(
          IF IsSome(file)
            THEN LET content == Val(file) IN
                 IF testApiKey(content) THEN replaceApiKey(content, apiKey)
                 ELSE IF testSettings(content) THEN insertAfterSettings(content, apiKey)
                 ELSE prependSettings(content, apiKey)
            ELSE newConfigFile(apiKey))]

\* isApiKeyConfigured(): the file exists and holds an api_key line (a read
\* that throws gives false; the model's file is always readable here).
isApiKeyConfigured_always(file) == TRUE

isApiKeyConfigured(file) == IsSome(file) /\ testApiKey(Val(file))

---------------------------------------------------------------------------
(* Configuration and the settings file ~/.pi/agent/settings.json           *)

DefaultCategory == "ai coding"

defaultConfig ==
  [enabled |-> TRUE, trackFiles |-> TRUE, trackSessions |-> TRUE,
   category |-> DefaultCategory,
   cliPath |-> [tilde |-> FALSE, segs |-> Home \o <<".wakatime", "wakatime-cli">>]]

\* { ...defaultConfig, ...settings.wakatime }: `over` is the object under
\* the settings' "wakatime" key, a record with some of the config's fields.
mergeConfig(over) ==
  [f \in DOMAIN defaultConfig |->
     IF f \in DOMAIN over THEN over[f] ELSE defaultConfig[f]]

\* The settings file: absent, unreadable/unparsable ("corrupt"), or JSON
\* whose "wakatime" key is absent (None) or an object (Some(over)).
SettingsAbsent  == [t |-> "absent", wakatime |-> None]
SettingsCorrupt == [t |-> "corrupt", wakatime |-> None]
SettingsJson(w) == [t |-> "json", wakatime |-> w]

---------------------------------------------------------------------------
(* The file system the extension looks at: a function from the absolute    *)
(* paths that exist to what is there, [t |-> "dir"] or a file with its     *)
(* content c.  Contents the locator tells apart: a worktree redirect       *)
(* "gitdir: <to>", a HEAD naming a branch "ref: refs/heads/<branch>", and  *)
(* anything else.                                                          *)

Dir == [t |-> "dir"]
File(c) == [t |-> "file", c |-> c]
Gitdir(to) == [k |-> "gitdir", to |-> to, branch |-> ""]
RefHead(branch) == [k |-> "ref", to |-> [abs |-> TRUE, segs |-> <<>>], branch |-> branch]
OtherContent == [k |-> "other", to |-> [abs |-> TRUE, segs |-> <<>>], branch |-> ""]
Binary == File(OtherContent)

AbsPath(segs) == [abs |-> TRUE, segs |-> segs]
RelPath(segs) == [abs |-> FALSE, segs |-> segs]

\* fs.existsSync(fp), a relative fp being resolved against the process's
\* working directory pcwd.
existsSync(fsys, pcwd, fp) == resolve(pcwd, fp) \in DOMAIN fsys

RECURSIVE findGitDir(_, _)
\* findGitDir(startDir): None (null) or Some(the path returned).  The loop
\* ends at the root, which is never looked at.
findGitDir(fsys, dir) ==
  IF dir = dirname(dir) THEN None
  ELSE LET gitDir == Append(dir, ".git") IN
       IF gitDir \in DOMAIN fsys /\ fsys[gitDir].t = "dir"
         THEN Some(AbsPath(gitDir))
       ELSE IF gitDir \in DOMAIN fsys /\ fsys[gitDir].t = "file"
                 /\ fsys[gitDir].c.k = "gitdir"
         THEN Some(fsys[gitDir].c.to)
       ELSE findGitDir(fsys, dirname(dir))

\* The branch loadConfig detects for cwd: Some(branch), or None when it
\* leaves currentBranch as it is (no git dir, no HEAD, HEAD not a branch
\* reference, or a read that throws, such as HEAD being a directory).
detectBranch(fsys, cwd) ==
  LET gitDir == findGitDir(fsys, cwd) IN
  IF ~IsSome(gitDir) THEN None
  ELSE LET headPath == resolve(cwd, join(Val(gitDir), "HEAD")) IN
       IF headPath \in DOMAIN fsys /\ fsys[headPath].t = "file"
            /\ fsys[headPath].c.k = "ref"
         THEN Some(fsys[headPath].c.branch)
         ELSE None

---------------------------------------------------------------------------
(* State                                                                   *)

VARIABLES
  config,          \* let config: WakaTimeConfig
  currentModel,    \* let currentModel: string | undefined
  currentProject,  \* let currentProject: string | undefined
  currentBranch,   \* let currentBranch: string | undefined
  cliAvailable,    \* let cliAvailable = false
  settingsFile,    \* ~/.pi/agent/settings.json
  cfgFile,         \* ~/.wakatime.cfg: None (no file) or Some(its lines)
  fs,              \* the rest of the file system
  startPending,    \* a session_start handler awaiting installWakaTimeCli
  installPending,  \* a wakatime-install handler awaiting installWakaTimeCli
  spawned,         \* the heartbeat invocations execFile'd by the last step
  inFlight,        \* how many invocations have not called back yet
                   \* (MaxInFlight: that many or more)
  lastEvent,       \* the event or command the last step handled
  cfgFile0,        \* history: the credentials file the process started with
  lastSaved,       \* history: the key of the last saveApiKey call that
                   \* returned true
  keyMissing       \* history: the session's start found no API key, and
                   \* wakatime-setup has saved none since

vars == <<config, currentModel, currentProject, currentBranch, cliAvailable,
          settingsFile, cfgFile, fs, startPending, installPending,
          spawned, inFlight, lastEvent, cfgFile0, lastSaved, keyMissing>>

session == <<config, currentModel, currentProject, currentBranch, cliAvailable>>
environment == <<settingsFile, cfgFile, fs>>
history == <<cfgFile0, lastSaved, keyMissing>>

\* The closure's variables as one value, for the helpers that read and
\* write several of them.
ST == [config |-> config, currentModel |-> currentModel,
       currentProject |-> currentProject, currentBranch |-> currentBranch,
       cliAvailable |-> cliAvailable]

Commit(st) ==
  /\ config' = st.config
  /\ currentModel' = st.currentModel
  /\ currentProject' = st.currentProject
  /\ currentBranch' = st.currentBranch
  /\ cliAvailable' = st.cliAvailable

\* const piVersion = getPiVersion()
piVersion == "unknown"

---------------------------------------------------------------------------
(* Helpers of the closure                                                  *)

\* loadConfig(ctx): the closure's variables afterwards.
loadConfig(st, settings, fsys, ctx) ==
  LET merged == IF settings.t = "json" /\ IsSome(settings.wakatime)
                  THEN mergeConfig(Val(settings.wakatime))
                  ELSE st.config
      cfg == [merged EXCEPT !.cliPath = expandTilde(@)]
      branch == detectBranch(fsys, ctx.cwd)
  IN [st EXCEPT !.config = cfg,
                !.cliAvailable = existsSync(fsys, ctx.cwd, AbsPath(cfg.cliPath.segs)),
                !.currentProject = Some(basename(ctx.cwd)),
                !.currentBranch = IF IsSome(branch) THEN branch ELSE @]

\* `${provider}/${id}`
modelName(m) == m.provider \o "/" \o m.id

\* updateModelFromContext(ctx)
updateModelFromContext_never(st, ctx) == st

updateModelFromContext(st, ctx) ==
  IF IsSome(ctx.model)
    THEN [st EXCEPT !.currentModel = Some(modelName(Val(ctx.model)))]
    ELSE st

\* A HeartbeatOptions object; the fields a caller leaves out are None
\* (isWrite: FALSE).
Opts(entity, entityType, category, isWrite, aiLineChanges) ==
  [entity |-> entity, entityType |-> entityType, category |-> category,
   project |-> None, branch |-> None, isWrite |-> isWrite,
   aiLineChanges |-> aiLineChanges, plugin |-> None]

\* The argument list sendHeartbeat builds, one field per flag (None: the
\* flag is not passed).
heartbeatArgs_countAlways(st, opts) ==
  [entity |-> opts.entity,
   entityType |-> opts.entityType,
   category |-> OrElse(opts.category, Some(st.config.category)),
   project |-> IF Truthy(opts.project) \/ Truthy(st.currentProject)
                 THEN OrElse(opts.project, st.currentProject) ELSE None,
   branch |-> IF Truthy(opts.branch) \/ Truthy(st.currentBranch)
                THEN OrElse(opts.branch, st.currentBranch) ELSE None,
   write |-> opts.isWrite,
   aiLineChanges |-> IF IsSome(opts.aiLineChanges)
                       THEN opts.aiLineChanges ELSE Some(0),
   plugin |-> OrElse(opts.plugin, Some("pi-coding-agent/" \o piVersion))]

heartbeatArgs(st, opts) ==
  [entity |-> opts.entity,
   entityType |-> opts.entityType,
   category |-> OrElse(opts.category, Some(st.config.category)),
   project |-> IF Truthy(opts.project) \/ Truthy(st.currentProject)
                 THEN OrElse(opts.project, st.currentProject) ELSE None,
   branch |-> IF Truthy(opts.branch) \/ Truthy(st.currentBranch)
                THEN OrElse(opts.branch, st.currentBranch) ELSE None,
   write |-> opts.isWrite,
   aiLineChanges |-> IF IsSome(opts.aiLineChanges) /\ Val(opts.aiLineChanges) > 0
                       THEN opts.aiLineChanges ELSE None,
   plugin |-> OrElse(opts.plugin, Some("pi-coding-agent/" \o piVersion))]

\* `{ timeout: 10000 }`: the milliseconds after which execFile kills an
\* invocation that has not exited.
HeartbeatTimeout == 10000

\* sendHeartbeat(opts): the invocations it spawns, none or one, each its
\* argument list with execFile's timeout option.
sendHeartbeat_noCliCheck(st, opts) ==
  IF ~st.config.enabled THEN <<>>
  ELSE <<[timeout |-> Some(HeartbeatTimeout)] @@ heartbeatArgs(st, opts)>>

sendHeartbeat(st, opts) ==
  IF ~st.config.enabled \/ ~st.cliAvailable THEN <<>>
  ELSE <<[timeout |-> Some(HeartbeatTimeout)] @@ heartbeatArgs(st, opts)>>

\* How many invocations are in flight at most before the count saturates.
MaxInFlight == 2

\* execFile(config.cliPath, args, {timeout}, callback) starts the
\* invocations sp and returns: the count in flight afterwards.
execFile(n, sp) ==
  IF n + Len(sp) > MaxInFlight THEN MaxInFlight ELSE n + Len(sp)

\* Can a handler run to its end, and the host deliver the next event, with
\* n invocations in flight?  sendHeartbeat does not wait for execFile's
\* callback, so it can whatever n is.
handlerReturns_whenDone(n) == n = 0

handlerReturns(n) == TRUE

\* execFile's callback: an invocation has exited, or was killed at the
\* timeout.  It only logs.
heartbeat_done_retry ==
  /\ inFlight > 0
  /\ inFlight' = inFlight
  /\ spawned' = <<[timeout |-> Some(HeartbeatTimeout)]
                   @@ heartbeatArgs(ST, Opts(<<>>, Some("app"), None, FALSE, None))>>
  /\ lastEvent' = [kind |-> "heartbeat_done"]
  /\ UNCHANGED <<session, environment, startPending, installPending, history>>

heartbeat_done_hung ==
  /\ inFlight > 0
  /\ inFlight' = inFlight
  /\ spawned' = <<>>
  /\ lastEvent' = [kind |-> "heartbeat_done"]
  /\ UNCHANGED <<session, environment, startPending, installPending, history>>

heartbeat_done ==
  /\ inFlight > 0
  /\ inFlight' \in {inFlight - 1} \cup (IF inFlight = MaxInFlight THEN {inFlight} ELSE {})
  /\ spawned' = <<>>
  /\ lastEvent' = [kind |-> "heartbeat_done"]
  /\ UNCHANGED <<session, environment, startPending, installPending, history>>

\* The options of the session-level heartbeats (session start, turn start,
\* shutdown).
appOpts(st, ctx) ==
  Opts(ctx.cwd, Some("app"), Some(st.config.category), FALSE, None)

---------------------------------------------------------------------------
(* Lifecycle event handlers.  A handler's result is [st |-> the closure's  *)
(* variables afterwards, spawned |-> the invocations it spawned].          *)

Result(st, sp) == [st |-> st, spawned |-> sp]

\* session_start from the API-key check on (the part after the CLI is
\* known to be there).
sessionStartTail_untracked(st, file, ctx) ==
  IF ~isApiKeyConfigured(file)
    THEN Result([st EXCEPT !.config.enabled = FALSE], <<>>)
  ELSE Result(st, sendHeartbeat(st, appOpts(st, ctx)))

sessionStartTail(st, file, ctx) ==
  IF ~isApiKeyConfigured(file)
    THEN Result([st EXCEPT !.config.enabled = FALSE], <<>>)
  ELSE IF ~st.config.enabled THEN Result(st, <<>>)
  ELSE IF st.config.trackSessions
    THEN Result(st, sendHeartbeat(st, appOpts(st, ctx)))
  ELSE Result(st, <<>>)

\* pi.on("session_start"): up to the end, or up to `await
\* installWakaTimeCli(config.cliPath, notify)` when the CLI is not there.
session_start(ctx) ==
  /\ handlerReturns(inFlight)
  /\ startPending = None
  /\ LET s1 == updateModelFromContext(loadConfig(ST, settingsFile, fs, ctx), ctx) IN
     IF s1.cliAvailable
       THEN LET r == sessionStartTail(s1, cfgFile, ctx) IN
            /\ Commit(r.st)
            /\ spawned' = r.spawned
            /\ startPending' = None
            /\ keyMissing' = ~isApiKeyConfigured(cfgFile)
       ELSE /\ Commit(s1)
            /\ spawned' = <<>>
            /\ startPending' = Some([ctx |-> ctx, cliPath |-> s1.config.cliPath])
            /\ keyMissing' = FALSE
  /\ lastEvent' = [kind |-> "session_start", ctx |-> ctx,
                   \* history: the configuration before the handler, and
                   \* right after its loadConfig call
                   before |-> config,
                   loaded |-> loadConfig(ST, settingsFile, fs, ctx).config,
                   \* what its branch detection found
                   detected |-> detectBranch(fs, ctx.cwd),
                   \* currentModel right after its loadConfig call
                   loadedModel |-> loadConfig(ST, settingsFile, fs, ctx).currentModel]
  /\ UNCHANGED <<environment, installPending, cfgFile0, lastSaved>>
  /\ inFlight' = execFile(inFlight, spawned')

\* What a finished installWakaTimeCli(cliPath) leaves on disk: the binary
\* at cliPath when it returns true, nothing new when it returns false.
installed_fs(fsys, cliPath, installed) ==
  IF installed THEN (cliPath.segs :> Binary) @@ fsys ELSE fsys

\* session_start resumed when installWakaTimeCli settles with `installed`.
session_start_resume(installed) ==
  /\ handlerReturns(inFlight)
  /\ startPending # None
  /\ LET p == Val(startPending) IN
     /\ fs' = installed_fs(fs, p.cliPath, installed)
     /\ IF installed
          THEN LET r == sessionStartTail([ST EXCEPT !.cliAvailable = TRUE], cfgFile, p.ctx) IN
               /\ Commit(r.st) /\ spawned' = r.spawned
               /\ keyMissing' = ~isApiKeyConfigured(cfgFile)
          ELSE UNCHANGED <<session, keyMissing>> /\ spawned' = <<>>
     /\ lastEvent' = [kind |-> "session_start_resume", ctx |-> p.ctx,
                      installed |-> installed]
  /\ startPending' = None
  /\ UNCHANGED <<settingsFile, cfgFile, installPending, cfgFile0, lastSaved>>
  /\ inFlight' = execFile(inFlight, spawned')

\* pi.on("model_select")
model_select_beat(event) ==
  /\ handlerReturns(inFlight)
  /\ currentModel' = Some(modelName(event.model))
  /\ spawned' = sendHeartbeat(ST, Opts(<<>>, Some("app"), None, FALSE, None))
  /\ lastEvent' = [kind |-> "model_select", event |-> event]
  /\ UNCHANGED <<config, currentProject, currentBranch, cliAvailable,
                 environment, startPending, installPending, history>>
  /\ inFlight' = execFile(inFlight, spawned')

model_select(event) ==
  /\ handlerReturns(inFlight)
  /\ currentModel' = Some(modelName(event.model))
  /\ spawned' = <<>>
  /\ lastEvent' = [kind |-> "model_select", event |-> event]
  /\ UNCHANGED <<config, currentProject, currentBranch, cliAvailable,
                 environment, startPending, installPending, history>>
  /\ inFlight' = execFile(inFlight, spawned')

\* The body shared by turn_start and session_shutdown.
sessionBeat_filesGate(st, ctx) ==
  IF ~st.config.enabled \/ ~st.config.trackFiles THEN Result(st, <<>>)
  ELSE LET s1 == updateModelFromContext(st, ctx) IN
       Result(s1, sendHeartbeat(s1, appOpts(s1, ctx)))

sessionBeat_project(st, ctx) ==
  IF ~st.config.enabled \/ ~st.config.trackSessions THEN Result(st, <<>>)
  ELSE LET s1 == [updateModelFromContext(st, ctx) EXCEPT
                    !.currentProject = Some(basename(ctx.cwd))] IN
       Result(s1, sendHeartbeat(s1, appOpts(s1, ctx)))

sessionBeat(st, ctx) ==
  IF ~st.config.enabled \/ ~st.config.trackSessions THEN Result(st, <<>>)
  ELSE LET s1 == updateModelFromContext(st, ctx) IN
       Result(s1, sendHeartbeat(s1, appOpts(s1, ctx)))

\* pi.on("turn_start")
turn_start(ctx) ==
  /\ handlerReturns(inFlight)
  /\ LET r == sessionBeat(ST, ctx) IN Commit(r.st) /\ spawned' = r.spawned
  /\ lastEvent' = [kind |-> "turn_start", ctx |-> ctx]
  /\ UNCHANGED <<environment, startPending, installPending, history>>
  /\ inFlight' = execFile(inFlight, spawned')

\* pi.on("session_shutdown")
session_shutdown(ctx) ==
  /\ handlerReturns(inFlight)
  /\ LET r == sessionBeat(ST, ctx) IN Commit(r.st) /\ spawned' = r.spawned
  /\ lastEvent' = [kind |-> "session_shutdown", ctx |-> ctx]
  /\ UNCHANGED <<environment, startPending, installPending, history>>
  /\ inFlight' = execFile(inFlight, spawned')

\* The tools whose results are tracked.
TrackedTools_all == {"read", "write", "edit", "bash"}

TrackedTools == {"read", "write", "edit"}

\* `let aiLineChanges` of the tool_result handler.
aiLineChanges(event) ==
  IF event.toolName = "write"
    THEN IF TruthyText(event.input.content)
           THEN Some(countLines(Val(event.input.content)))
           ELSE None
  ELSE IF event.toolName = "edit"
    THEN IF TruthyText(event.input.oldText) /\ TruthyText(event.input.newText)
           THEN LET oldLines == countLines(Val(event.input.oldText))
                    newLines == countLines(Val(event.input.newText))
                    d == abs(newLines - oldLines)
                IN Some(IF d = 0 THEN 1 ELSE d)
           ELSE None
  ELSE None

\* `toolName === "read" && !fs.existsSync(absolutePath)`
readFailed_never(fsys, toolName, absolutePath) == FALSE

readFailed(fsys, toolName, absolutePath) ==
  toolName = "read" /\ absolutePath \notin DOMAIN fsys

\* `isWrite: toolName !== "read"`
isWrite_never(toolName) == FALSE

isWrite(toolName) == toolName # "read"

\* The body of the tool_result handler.
toolResult_sessionsGate(st, fsys, event, ctx) ==
  IF ~st.config.enabled \/ ~st.config.trackSessions THEN Result(st, <<>>)
  ELSE LET s1 == updateModelFromContext(st, ctx) IN
       IF event.toolName \notin TrackedTools THEN Result(s1, <<>>)
       ELSE IF ~TruthyPath(event.input.path) THEN Result(s1, <<>>)
       ELSE LET filePath == Val(event.input.path)
                absolutePath == IF isAbsolute(filePath) THEN filePath.segs
                                ELSE resolve(ctx.cwd, filePath)
            IN IF readFailed(fsys, event.toolName, absolutePath)
                 THEN Result(s1, <<>>)
                 ELSE Result(s1, sendHeartbeat(s1,
                        Opts(absolutePath, Some("file"), None,
                             isWrite(event.toolName), aiLineChanges(event))))

toolResult(st, fsys, event, ctx) ==
  IF ~st.config.enabled \/ ~st.config.trackFiles THEN Result(st, <<>>)
  ELSE LET s1 == updateModelFromContext(st, ctx) IN
       IF event.toolName \notin TrackedTools THEN Result(s1, <<>>)
       ELSE IF ~TruthyPath(event.input.path) THEN Result(s1, <<>>)
       ELSE LET filePath == Val(event.input.path)
                absolutePath == IF isAbsolute(filePath) THEN filePath.segs
                                ELSE resolve(ctx.cwd, filePath)
            IN IF readFailed(fsys, event.toolName, absolutePath)
                 THEN Result(s1, <<>>)
                 ELSE Result(s1, sendHeartbeat(s1,
                        Opts(absolutePath, Some("file"), None,
                             isWrite(event.toolName), aiLineChanges(event))))

\* pi.on("tool_result")
tool_result(event, ctx) ==
  /\ handlerReturns(inFlight)
  /\ LET r == toolResult(ST, fs, event, ctx) IN Commit(r.st) /\ spawned' = r.spawned
  /\ lastEvent' = [kind |-> "tool_result", event |-> event, ctx |-> ctx]
  /\ UNCHANGED <<environment, startPending, installPending, history>>
  /\ inFlight' = execFile(inFlight, spawned')

---------------------------------------------------------------------------
(* Commands                                                                *)

\* The lines the status command renders that depend on the state.
statusReport(st, file) ==
  [cliFound |-> st.cliAvailable,
   apiKeyConfigured |-> isApiKeyConfigured(file),
   enabled |-> st.config.enabled,
   trackFiles |-> st.config.trackFiles,
   trackSessions |-> st.config.trackSessions,
   category |-> st.config.category,
   project |-> OrElse(st.currentProject, Some("(none)")),
   branch |-> OrElse(st.currentBranch, Some("(none)")),
   model |-> OrElse(st.currentModel, Some("(none)"))]

\* pi.registerCommand("wakatime"): nothing without a UI, else the report
\* it notifies.
wakatime(ctx) ==
  /\ handlerReturns(inFlight)
  /\ spawned' = <<>>
  /\ lastEvent' = [kind |-> "wakatime", ctx |-> ctx,
                   report |-> IF ctx.hasUI THEN Some(statusReport(ST, cfgFile))
                              ELSE None]
  /\ UNCHANGED <<session, environment, startPending, installPending, history>>
  /\ inFlight' = execFile(inFlight, spawned')

\* pi.registerCommand("wakatime-install"), up to `await installWakaTimeCli`.
wakatime_install(ctx) ==
  /\ handlerReturns(inFlight)
  /\ installPending = None
  /\ installPending' = Some([cliPath |-> config.cliPath])
  /\ spawned' = <<>>
  /\ lastEvent' = [kind |-> "wakatime-install", ctx |-> ctx]
  /\ UNCHANGED <<session, environment, startPending, history>>
  /\ inFlight' = execFile(inFlight, spawned')

\* wakatime-install resumed when installWakaTimeCli settles.
wakatime_install_resume(installed) ==
  /\ handlerReturns(inFlight)
  /\ installPending # None
  /\ fs' = installed_fs(fs, Val(installPending).cliPath, installed)
  /\ cliAvailable' = IF installed THEN TRUE ELSE cliAvailable
  /\ installPending' = None
  /\ spawned' = <<>>
  /\ lastEvent' = [kind |-> "wakatime-install_resume", installed |-> installed]
  /\ UNCHANGED <<config, currentModel, currentProject, currentBranch,
                 settingsFile, cfgFile, startPending, history>>
  /\ inFlight' = execFile(inFlight, spawned')

setupResult_noEnable(st, file, args, ctx, fsOk) ==
  IF ctx.hasUI /\ Truthy(args.api_key) /\ isValidApiKey(Val(args.api_key))
    THEN LET r == saveApiKey(file, Val(args.api_key), fsOk) IN
         [st |-> st, file |-> r.file, saved |-> r.ok]
    ELSE [st |-> st, file |-> file, saved |-> FALSE]

\* The body of the wakatime-setup handler: [st |-> the closure's variables
\* afterwards, file |-> the credentials file afterwards, saved |-> did
\* saveApiKey return true].
setupResult(st, file, args, ctx, fsOk) ==
  IF ~ctx.hasUI THEN [st |-> st, file |-> file, saved |-> FALSE]
  ELSE IF ~Truthy(args.api_key) THEN [st |-> st, file |-> file, saved |-> FALSE]
  ELSE IF ~isValidApiKey(Val(args.api_key))
    THEN [st |-> st, file |-> file, saved |-> FALSE]
  ELSE LET r == saveApiKey(file, Val(args.api_key), fsOk) IN
       IF r.ok THEN [st |-> [st EXCEPT !.config.enabled = TRUE],
                     file |-> r.file, saved |-> TRUE]
       ELSE [st |-> st, file |-> r.file, saved |-> FALSE]

\* pi.registerCommand("wakatime-setup"); fsOk: the file-system calls of
\* saveApiKey succeed.
wakatime_setup(args, ctx, fsOk) ==
  /\ handlerReturns(inFlight)
  /\ LET r == setupResult(ST, cfgFile, args, ctx, fsOk) IN
     /\ Commit(r.st)
     /\ cfgFile' = r.file
     /\ lastSaved' = IF r.saved THEN args.api_key ELSE lastSaved
     /\ keyMissing' = IF r.saved THEN FALSE ELSE keyMissing
  /\ spawned' = <<>>
  /\ lastEvent' = [kind |-> "wakatime-setup", args |-> args, ctx |-> ctx,
                   fsOk |-> fsOk,
                   \* history: enabled, and the last key saved, before
                   \* this command
                   before |-> config.enabled,
                   savedBefore |-> lastSaved]
  /\ UNCHANGED <<settingsFile, fs, startPending, installPending, cfgFile0>>
  /\ inFlight' = execFile(inFlight, spawned')

\* The body of the wakatime-toggle handler.
toggleResult_disable(st) == [st EXCEPT !.config.enabled = FALSE]

toggleResult_reload(st) ==
  [st EXCEPT !.config = [defaultConfig EXCEPT !.enabled = ~st.config.enabled]]

toggleResult(st) == [st EXCEPT !.config.enabled = ~st.config.enabled]

\* pi.registerCommand("wakatime-toggle")
wakatime_toggle(ctx) ==
  /\ handlerReturns(inFlight)
  /\ Commit(toggleResult(ST))
  /\ spawned' = <<>>
  /\ lastEvent' = [kind |-> "wakatime-toggle", ctx |-> ctx,
                   \* history: enabled before this toggle, and, when the
                   \* step before was a toggle too, before that one
                   before |-> config.enabled,
                   twice |-> lastEvent.kind = "wakatime-toggle",
                   beforeBoth |-> IF lastEvent.kind = "wakatime-toggle"
                                    THEN lastEvent.before ELSE config.enabled]
  /\ UNCHANGED <<environment, startPending, installPending, history>>
  /\ inFlight' = execFile(inFlight, spawned')

---------------------------------------------------------------------------
(* Inputs                                                                  *)

\* Working directories: a project inside a git work tree, and one outside.
ProjectDir == <<"w", "proj">>
PlainDir == <<"tmp">>
Cwds == {ProjectDir, PlainDir}

\* Model descriptors a context or a model_select event carries.
ModelA == [provider |-> "anthropic", id |-> "claude"]
ModelB == [provider |-> "openai", id |-> "gpt"]

Ctx(cwd, model, hasUI) == [cwd |-> cwd, model |-> model, hasUI |-> hasUI]

\* The context of a session in the project directory, with a UI and
\* ModelA selected.
MainCtx == Ctx(ProjectDir, Some(ModelA), TRUE)

\* Texts over the characters "a" and "\n", up to a length.
MaxLen == 2
Texts(n) == UNION {[1..k -> {"a", NL}] : k \in 0..n}
OptTexts(n) == {None} \cup {Some(t) : t \in Texts(n)}

\* Tool-result events.
Input(path, content, oldText, newText) ==
  [path |-> path, content |-> content, oldText |-> oldText, newText |-> newText]
ToolEvent(toolName, input) == [toolName |-> toolName, input |-> input]

ExistingFile == Some(RelPath(<<"a.ts">>))
MissingFile == Some(AbsPath(<<"w", "proj", "gone.ts">>))
EmptyPath == Some(RelPath(<<>>))
ToolPaths == {None, EmptyPath, ExistingFile, MissingFile}

ReadEvents(paths) ==
  {ToolEvent(t, Input(p, None, None, None)) : t \in {"read", "bash"}, p \in paths}
WriteEvents(paths, texts) ==
  {ToolEvent("write", Input(p, c, None, None)) : p \in paths, c \in texts}
EditEvents(paths, texts) ==
  {ToolEvent("edit", Input(p, None, o, n)) : p \in paths, o \in texts, n \in texts}

\* API keys: accepted ones (the two examples, and one in upper-case hex
\* digits) and rejected ones.
ValidKeys == {Uuid, WakaKey, UuidUpper}
InvalidKeys == {NotAKey, ShortUuid, LongUuid, BadPrefix}

\* An invocation of wakatime-setup.
Setup(key, ctx, fsOk) == [args |-> [api_key |-> key], ctx |-> ctx, fsOk |-> fsOk]

\* Credentials files.
CfgEmpty == <<BlankLine>>
CfgConfigured == <<SectionLine("settings"), KeyLine(OldKey), BlankLine>>
CfgNoKey == <<SectionLine("settings"), OtherLine("debug"), BlankLine>>
CfgNoSection == <<OtherLine("debug"), BlankLine>>
CfgSpaced == <<SectionLine("settings"), BlankLine, BlankLine, KeyLine(OldKey), BlankLine>>
CfgTwoKeys == <<SectionLine("settings"), KeyLine(OldKey), SectionLine("other"),
                KeyLine(OldKey), BlankLine>>

\* File systems: the project's work tree on branch main, with or without
\* the CLI binary at its default place.
BaseTree ==
  (<<"w">> :> Dir) @@ (ProjectDir :> Dir) @@ (PlainDir :> Dir)
  @@ (<<"w", "proj", ".git">> :> Dir)
  @@ (<<"w", "proj", ".git", "HEAD">> :> File(RefHead("main")))
  @@ (<<"w", "proj", "a.ts">> :> File(OtherContent))
CliTree == (defaultConfig.cliPath.segs :> Binary) @@ BaseTree

\* The project with a submodule checkout in sub/, whose .git file redirects
\* by a relative path, as git writes it for submodules.
SubDir == <<"w", "proj", "sub">>
SubSrcDir == <<"w", "proj", "sub", "src">>
SubTree ==
  (<<"w", "proj", ".git", "modules">> :> Dir)
  @@ (<<"w", "proj", ".git", "modules", "sub">> :> Dir)
  @@ (<<"w", "proj", ".git", "modules", "sub", "HEAD">> :> File(RefHead("feature")))
  @@ (SubDir :> Dir) @@ (SubSrcDir :> Dir)
  @@ (<<"w", "proj", "sub", ".git">> :>
        File(Gitdir(RelPath(<<"..", ".git", "modules", "sub">>))))
  @@ BaseTree

\* The project with a linked worktree in /w/wt, whose .git file redirects
\* by an absolute path, as git writes it for worktrees.
WorktreeDir == <<"w", "wt">>
WorktreeTree ==
  (<<"w", "proj", ".git", "worktrees">> :> Dir)
  @@ (<<"w", "proj", ".git", "worktrees", "wt">> :> Dir)
  @@ (<<"w", "proj", ".git", "worktrees", "wt", "HEAD">> :> File(RefHead("wt")))
  @@ (WorktreeDir :> Dir)
  @@ (<<"w", "wt", ".git">> :>
        File(Gitdir(AbsPath(<<"w", "proj", ".git", "worktrees", "wt">>))))
  @@ BaseTree

\* A work tree at the root of the file system.
RootTree ==
  (<<".git">> :> Dir) @@ (<<".git", "HEAD">> :> File(RefHead("root")))
  @@ (PlainDir :> Dir)

---------------------------------------------------------------------------
(* Specifications                                                          *)

\* The state after the extension's factory function has run, in a world
\* with the given settings files, credentials files and file systems.
InitIn(settings, cfgFiles, trees) ==
  /\ config = defaultConfig
  /\ currentModel = None
  /\ currentProject = None
  /\ currentBranch = None
  /\ cliAvailable = FALSE
  /\ settingsFile \in settings
  /\ cfgFile \in cfgFiles
  /\ fs \in trees
  /\ startPending = None
  /\ installPending = None
  /\ spawned = <<>>
  /\ inFlight = 0
  /\ lastEvent = [kind |-> "init"]
  /\ cfgFile0 = cfgFile
  /\ lastSaved = None
  /\ keyMissing = FALSE

\* The next-state relation over the inputs D gives each handler:
\* contexts (startCtxs, beatCtxs, toolCtxs, commandCtxs), the models of
\* model_select, tool-result events, and invocations of wakatime-setup.
NextIn(D) ==
  \/ \E ctx \in D.startCtxs : session_start(ctx)
  \/ \E installed \in BOOLEAN : session_start_resume(installed)
  \/ \E m \in D.models : model_select([model |-> m])
  \/ \E ctx \in D.beatCtxs : turn_start(ctx)
  \/ \E ctx \in D.beatCtxs : session_shutdown(ctx)
  \/ \E ctx \in D.toolCtxs : \E event \in D.toolEvents : tool_result(event, ctx)
  \/ \E ctx \in D.commandCtxs : wakatime(ctx)
  \/ \E ctx \in D.commandCtxs : wakatime_install(ctx)
  \/ \E installed \in BOOLEAN : wakatime_install_resume(installed)
  \/ \E c \in D.setups : wakatime_setup(c.args, c.ctx, c.fsOk)
  \/ \E ctx \in D.commandCtxs : wakatime_toggle(ctx)
  \/ heartbeat_done

\* The main specification: one session context; the settings, the
\* credentials file and the CLI binary vary.
MainSettings ==
  {SettingsAbsent,
   SettingsJson(Some([trackFiles |-> FALSE])),
   SettingsJson(Some([trackSessions |-> FALSE, category |-> "custom"])),
   SettingsJson(Some([enabled |-> FALSE,
                      cliPath |-> [tilde |-> TRUE, segs |-> <<"bin", "wakatime-cli">>]]))}

MainInputs ==
  [startCtxs |-> {MainCtx}, beatCtxs |-> {MainCtx}, toolCtxs |-> {MainCtx},
   commandCtxs |-> {MainCtx},
   models |-> {ModelB},
   toolEvents |-> ReadEvents(ToolPaths)
                  \cup WriteEvents({ExistingFile}, {Some(<<"a", NL, "a">>)})
                  \cup EditEvents({ExistingFile}, {Some(<<"a">>)}),
   setups |-> {Setup(Some(k), MainCtx, TRUE) : k \in {WakaKey, NotAKey}}]

Init == InitIn(MainSettings, {None, Some(CfgConfigured)}, {BaseTree, CliTree})

Next == NextIn(MainInputs)

Spec == Init /\ [][Next]_vars

\* The specification of the line counts: one session, started without the
\* CLI on disk; the written and edited texts vary.
TextInputs ==
  [startCtxs |-> {MainCtx}, beatCtxs |-> {MainCtx}, toolCtxs |-> {MainCtx},
   commandCtxs |-> {MainCtx},
   models |-> {ModelB},
   toolEvents |-> ReadEvents({ExistingFile})
                  \cup WriteEvents({ExistingFile}, OptTexts(MaxLen))
                  \cup EditEvents({ExistingFile}, OptTexts(MaxLen)),
   setups |-> {Setup(Some(NotAKey), MainCtx, TRUE)}]

InitText == InitIn({SettingsAbsent}, {Some(CfgConfigured)}, {BaseTree})

NextText == NextIn(TextInputs)

SpecText == InitText /\ [][NextText]_vars

\* The specification of the credentials: one session, started without the
\* CLI on disk; the credentials file, the api_key argument, the UI and the
\* success of the file-system calls vary.
NoUiCtx == Ctx(ProjectDir, Some(ModelA), FALSE)

CredInputs ==
  [startCtxs |-> {MainCtx}, beatCtxs |-> {MainCtx}, toolCtxs |-> {MainCtx},
   commandCtxs |-> {MainCtx},
   models |-> {ModelA},
   toolEvents |-> WriteEvents({ExistingFile}, {Some(<<"a">>)}),
   setups |-> {Setup(key, MainCtx, TRUE) :
                 key \in {None, Some("")}
                          \cup {Some(k) : k \in ValidKeys \cup InvalidKeys}}
              \cup {Setup(Some(k), NoUiCtx, TRUE) : k \in {WakaKey, NotAKey}}
              \cup {Setup(Some(k), MainCtx, FALSE) : k \in {Uuid, NotAKey}}]

InitCred ==
  InitIn({SettingsAbsent},
         {None, Some(CfgEmpty), Some(CfgConfigured), Some(CfgNoKey),
          Some(CfgNoSection), Some(CfgSpaced), Some(CfgTwoKeys)},
         {BaseTree})

NextCred == NextIn(CredInputs)

SpecCred == InitCred /\ [][NextCred]_vars

\* The specification of the invocations in flight: one session with the
\* default settings and an API key, one event of each kind.
FlightInputs ==
  [startCtxs |-> {MainCtx}, beatCtxs |-> {MainCtx}, toolCtxs |-> {MainCtx},
   commandCtxs |-> {MainCtx},
   models |-> {ModelB},
   toolEvents |-> WriteEvents({ExistingFile}, {None}),
   setups |-> {Setup(Some(WakaKey), MainCtx, TRUE)}]

InitFlight == InitIn({SettingsAbsent}, {Some(CfgConfigured)}, {BaseTree, CliTree})

NextFlight == NextIn(FlightInputs)

SpecFlight == InitFlight /\ [][NextFlight]_vars

\* The specification of the settings: the settings file is absent,
\* unparsable, or JSON without a "wakatime" key.
SettingsInputs == FlightInputs

InitSettings ==
  InitIn({SettingsAbsent, SettingsCorrupt, SettingsJson(None)},
         {None, Some(CfgConfigured)}, {BaseTree, CliTree})

NextSettings == NextIn(SettingsInputs)

SpecSettings == InitSettings /\ [][NextSettings]_vars

\* The specification of the branch detection: sessions start in the
\* directories of work trees with and without redirects, and outside any.
GitCtxs ==
  {Ctx(cwd, Some(ModelA), TRUE) :
     cwd \in {ProjectDir, SubDir, SubSrcDir, WorktreeDir, PlainDir}}

GitInputs ==
  [startCtxs |-> GitCtxs, beatCtxs |-> {MainCtx}, toolCtxs |-> {MainCtx},
   commandCtxs |-> {MainCtx},
   models |-> {ModelB},
   toolEvents |-> WriteEvents({ExistingFile}, {None}),
   setups |-> {Setup(Some(WakaKey), MainCtx, TRUE)}]

InitGit ==
  InitIn({SettingsAbsent}, {Some(CfgConfigured)},
         {BaseTree, SubTree, WorktreeTree, RootTree})

NextGit == NextIn(GitInputs)

SpecGit == InitGit /\ [][NextGit]_vars

\* The specification of the model: contexts with and without a model
\* descriptor, with file tracking or session tracking switched off by the
\* settings, or neither.
NoModelCtx == Ctx(ProjectDir, None, TRUE)

ModelInputs ==
  [startCtxs |-> {MainCtx, NoModelCtx}, beatCtxs |-> {MainCtx, NoModelCtx},
   toolCtxs |-> {MainCtx, NoModelCtx},
   commandCtxs |-> {MainCtx},
   models |-> {ModelB},
   toolEvents |-> ReadEvents({ExistingFile}),
   setups |-> {Setup(Some(WakaKey), MainCtx, TRUE)}]

InitModel ==
  InitIn({SettingsAbsent,
          SettingsJson(Some([trackFiles |-> FALSE])),
          SettingsJson(Some([trackSessions |-> FALSE]))},
         {Some(CfgConfigured)}, {BaseTree})

NextModel == NextIn(ModelInputs)

SpecModel == InitModel /\ [][NextModel]_vars

\* The invocations in flight under fairness: an invocation in flight does
\* call back, by the timeout at the latest, so the count goes down while
\* there is one.
SpecFlightFair ==
  SpecFlight /\ WF_vars(heartbeat_done /\ inFlight' = inFlight - 1)

\* The project with a directory sub/ whose own metadata names no branch:
\* a .git file that is not a redirect, a .git directory with a detached
\* HEAD, one without HEAD, and a redirect to a place that is not there.
SubGit == Append(SubDir, ".git")
SubDirs == (SubDir :> Dir) @@ (SubSrcDir :> Dir)
MalformedTree == (SubGit :> File(OtherContent)) @@ SubDirs @@ BaseTree
DetachedTree ==
  (SubGit :> Dir) @@ (Append(SubGit, "HEAD") :> File(OtherContent))
  @@ SubDirs @@ BaseTree
HeadlessTree == (SubGit :> Dir) @@ SubDirs @@ BaseTree
DanglingTree ==
  (SubGit :> File(Gitdir(AbsPath(<<"w", "gone">>)))) @@ SubDirs @@ BaseTree

\* The specification of the locator where extraction fails: session
\* starts in the project, in sub/ and below it.
LocatorCtxs ==
  {Ctx(cwd, Some(ModelA), TRUE) : cwd \in {ProjectDir, SubDir, SubSrcDir}}

LocatorInputs == [GitInputs EXCEPT !.startCtxs = LocatorCtxs]

InitLocator ==
  InitIn({SettingsAbsent}, {Some(CfgConfigured)},
         {BaseTree, MalformedTree, DetachedTree, HeadlessTree, DanglingTree})

NextLocator == NextIn(LocatorInputs)

SpecLocator == InitLocator /\ [][NextLocator]_vars

\* Outside the extension: the binary at the configured path is removed
\* from the disk.
cli_unlinked ==
  /\ config.cliPath.segs \in DOMAIN fs
  /\ fs' = [p \in DOMAIN fs \ {config.cliPath.segs} |-> fs[p]]
  /\ spawned' = <<>>
  /\ lastEvent' = [kind |-> "cli_unlinked"]
  /\ UNCHANGED <<session, settingsFile, cfgFile, startPending, installPending,
                 inFlight, history>>

\* The specification of the status command: as that of the invocations in
\* flight, in a world where the binary can disappear.
InitStatus == InitFlight

NextStatus == NextIn(FlightInputs) \/ cli_unlinked

SpecStatus == InitStatus /\ [][NextStatus]_vars

---------------------------------------------------------------------------
(* Properties                                                              *)

\* What the last step's tool_result event was about.
LastTool == lastEvent.event.toolName
LastInput == lastEvent.event.input
LastAbsolutePath ==
  IF LastInput.path[1].abs THEN LastInput.path[1].segs
  ELSE normalize(lastEvent.ctx.cwd, LastInput.path[1].segs)

\* C1: a heartbeat invocation is spawned only with enabled and cliAvailable
\* both true at the call (a handler changes neither after its
\* sendHeartbeat call, so they are the values of the state the step ends
\* in); with cliAvailable false no step spawns one, whatever the flags.
C1_SpawnOnlyWhenEnabledAndCliAvailable ==
  spawned # <<>> => config.enabled /\ cliAvailable

\* C1's case: a turn_start handled with tracking enabled, sessions tracked
\* and the CLI unavailable, which reached sendHeartbeat and spawned nothing.
C1_Witness ==
  /\ lastEvent.kind = "turn_start"
  /\ config.enabled /\ config.trackSessions /\ ~cliAvailable
  /\ spawned = <<>>

\* C2: a tool_result of a tool other than read, write, edit dispatches no
\* heartbeat, in any session state.
C2_UntrackedToolNoHeartbeat ==
  lastEvent.kind = "tool_result" /\ LastTool \notin {"read", "write", "edit"}
    => spawned = <<>>

\* C2's case: the result of a bash tool call with a path, handled with
\* every gate open.
C2_Witness ==
  /\ lastEvent.kind = "tool_result" /\ LastTool = "bash"
  /\ LastInput.path = ExistingFile
  /\ config.enabled /\ config.trackFiles /\ cliAvailable
  /\ spawned = <<>>

\* C3: a read tool_result with a path (a non-empty string), handled with
\* enabled, trackFiles and cliAvailable true: no heartbeat when the
\* resolved file does not exist, exactly one without the write flag when
\* it does.
C3_ReadHeartbeatIffFileExists ==
  /\ lastEvent.kind = "tool_result" /\ LastTool = "read"
  /\ TruthyPath(LastInput.path)
  /\ config.enabled /\ config.trackFiles /\ cliAvailable
  => IF LastAbsolutePath \in DOMAIN fs
       THEN Len(spawned) = 1 /\ ~spawned[1].write
            /\ spawned[1].entity = LastAbsolutePath
       ELSE spawned = <<>>

\* C3's case: the read of a missing file, handled with every gate open.
C3_Witness ==
  /\ lastEvent.kind = "tool_result" /\ LastTool = "read"
  /\ LastInput.path = MissingFile
  /\ config.enabled /\ config.trackFiles /\ cliAvailable
  /\ spawned = <<>>

\* C6: two toggle commands in succession leave enabled at the value it had
\* before the first.
C6_ToggleTwiceRestores ==
  lastEvent.kind = "wakatime-toggle" /\ lastEvent.twice
    => config.enabled = lastEvent.beforeBoth

\* C6's case: a second toggle right after a first, from a state in which
\* tracking had been disabled by the missing API key.
C6_Witness ==
  /\ lastEvent.kind = "wakatime-toggle" /\ lastEvent.twice
  /\ ~lastEvent.beforeBoth /\ ~isApiKeyConfigured(cfgFile)

\* C7: a toggle command negates enabled, leaves trackFiles, trackSessions,
\* category, cliPath, cliAvailable, currentProject, currentBranch and
\* currentModel as they are, and dispatches no heartbeat.
C7_ToggleFrame ==
  [][lastEvent'.kind = "wakatime-toggle" =>
       /\ config'.enabled = ~config.enabled
       /\ config'.trackFiles = config.trackFiles
       /\ config'.trackSessions = config.trackSessions
       /\ config'.category = config.category
       /\ config'.cliPath = config.cliPath
       /\ UNCHANGED <<cliAvailable, currentProject, currentBranch, currentModel>>
       /\ spawned' = <<>>]_vars

\* C7's case: a toggle that re-enabled tracking in a session with
\* non-default settings, a branch and a model.
C7_Witness ==
  /\ lastEvent.kind = "wakatime-toggle" /\ ~lastEvent.before /\ config.enabled
  /\ ~config.trackSessions /\ cliAvailable
  /\ currentBranch = Some("main") /\ IsSome(currentModel)

\* The number of newline-delimited segments of a text: one more than its
\* newline characters.
Segments(text) == Cardinality({i \in 1..Len(text) : text[i] = NL}) + 1

Max(a, b) == IF a >= b THEN a ELSE b

\* C4: a write tool_result that dispatches a heartbeat reports, for every
\* content string, the number of newline-delimited segments of the content
\* as the AI line-change count.
C4_WriteCountIsSegments ==
  /\ lastEvent.kind = "tool_result" /\ LastTool = "write"
  /\ IsSome(LastInput.content) /\ spawned # <<>>
  => spawned[1].aiLineChanges = Some(Segments(Val(LastInput.content)))

\* C4's failing case: a write of the empty string dispatched a heartbeat
\* that carries no line-change count.
C4_Witness ==
  /\ lastEvent.kind = "tool_result" /\ LastTool = "write"
  /\ LastInput.content = Some(<<>>)
  /\ spawned # <<>> /\ spawned[1].write /\ spawned[1].aiLineChanges = None

\* What the code does for C4: the count is the number of segments when the
\* content is not empty, and no count is passed when it is empty.
WriteCountUnlessEmpty ==
  /\ lastEvent.kind = "tool_result" /\ LastTool = "write"
  /\ IsSome(LastInput.content) /\ spawned # <<>>
  => spawned[1].aiLineChanges =
       IF Val(LastInput.content) = <<>> THEN None
       ELSE Some(Segments(Val(LastInput.content)))

\* C5: an edit tool_result that dispatches a heartbeat reports, for every
\* pair (oldText, newText), max(1, |lines(newText) - lines(oldText)|) as
\* the AI line-change count, never 0 and never no count.
C5_EditCountIsFlooredDifference ==
  /\ lastEvent.kind = "tool_result" /\ LastTool = "edit"
  /\ IsSome(LastInput.oldText) /\ IsSome(LastInput.newText) /\ spawned # <<>>
  => spawned[1].aiLineChanges =
       Some(Max(1, abs(Segments(Val(LastInput.newText))
                       - Segments(Val(LastInput.oldText)))))

\* C5's failing case: an edit that replaces a one-line text by the empty
\* text dispatched a heartbeat that carries no line-change count.
C5_Witness ==
  /\ lastEvent.kind = "tool_result" /\ LastTool = "edit"
  /\ LastInput.oldText = Some(<<"a">>) /\ LastInput.newText = Some(<<>>)
  /\ spawned # <<>> /\ spawned[1].write /\ spawned[1].aiLineChanges = None

\* What the code does for C5: the floored difference when neither text is
\* empty, and no count when one of them is.
EditCountUnlessEmpty ==
  /\ lastEvent.kind = "tool_result" /\ LastTool = "edit"
  /\ IsSome(LastInput.oldText) /\ IsSome(LastInput.newText) /\ spawned # <<>>
  => spawned[1].aiLineChanges =
       IF Val(LastInput.oldText) = <<>> \/ Val(LastInput.newText) = <<>> THEN None
       ELSE Some(Max(1, abs(Segments(Val(LastInput.newText))
                            - Segments(Val(LastInput.oldText)))))

\* C8: a setup command given a credential of neither accepted format
\* leaves the credentials file, enabled and every other session-state
\* field as they are.
C8_RejectedKeyChangesNothing ==
  [][/\ lastEvent'.kind = "wakatime-setup"
     /\ IsSome(lastEvent'.args.api_key)
     /\ Val(lastEvent'.args.api_key) \in InvalidKeys \cup {""}
     => UNCHANGED <<cfgFile, config, currentModel, currentProject,
                    currentBranch, cliAvailable>>]_vars

\* C8's case: "not-a-key" given, with a UI, while tracking was disabled
\* and the file held a key.
C8_Witness ==
  /\ lastEvent.kind = "wakatime-setup" /\ lastEvent.args.api_key = Some(NotAKey)
  /\ lastEvent.ctx.hasUI /\ lastEvent.fsOk
  /\ ~config.enabled /\ cfgFile = Some(CfgConfigured)

\* The credentials file's lines, and where its lines of a kind are.
CfgLines == Val(cfgFile)
SettingsHeaders == {i \in 1..Len(CfgLines) : CfgLines[i] = SectionLine("settings")}
ApiKeyLines == {i \in 1..Len(CfgLines) : CfgLines[i].t = "key"}

\* C9: from an absent or empty credentials file, after one or more
\* successful saveApiKey calls the file has exactly one [settings] header
\* and exactly one api_key line, which holds the key saved last (and stays
\* where the first save put it, right under the header).
C9_OneSectionOneKey ==
  cfgFile0 \in {None, Some(CfgEmpty)} /\ IsSome(lastSaved)
    => /\ IsSome(cfgFile)
       /\ SettingsHeaders = {1}
       /\ ApiKeyLines = {2}
       /\ CfgLines[2] = KeyLine(Val(lastSaved))

\* C9's case: a second successful save, of another key, into the file a
\* first save had made of an empty one.
C9_Witness ==
  /\ cfgFile0 = Some(CfgEmpty)
  /\ lastEvent.kind = "wakatime-setup"
  /\ lastEvent.savedBefore = Some(WakaKey) /\ lastSaved = Some(Uuid)

\* The credentials file holds the credential key.
Holds(key) ==
  IsSome(cfgFile) /\ \E i \in 1..Len(CfgLines) : CfgLines[i] = KeyLine(key)

\* C10 as stated: after a setup command given an accepted credential, the
\* file being writable, the file holds that credential and enabled is
\* true, whatever enabled was and whether or not the context has a UI.
C10_SetupPersistsAndEnables_AnyContext ==
  /\ lastEvent.kind = "wakatime-setup"
  /\ IsSome(lastEvent.args.api_key) /\ Val(lastEvent.args.api_key) \in ValidKeys
  /\ lastEvent.fsOk
  => Holds(Val(lastEvent.args.api_key)) /\ config.enabled

\* C10's failing case: an accepted key given without a UI, the file being
\* writable; no credentials file exists afterwards.
C10_Witness ==
  /\ lastEvent.kind = "wakatime-setup" /\ lastEvent.args.api_key = Some(WakaKey)
  /\ ~lastEvent.ctx.hasUI /\ lastEvent.fsOk
  /\ cfgFile = None

\* What the code does for C10: the credential is persisted and tracking
\* enabled when the setup command runs in a context with a UI.
SetupWithUiPersistsAndEnables ==
  /\ lastEvent.kind = "wakatime-setup"
  /\ lastEvent.ctx.hasUI
  /\ IsSome(lastEvent.args.api_key) /\ Val(lastEvent.args.api_key) \in ValidKeys
  /\ lastEvent.fsOk
  => Holds(Val(lastEvent.args.api_key)) /\ config.enabled

\* C11: once a session start has found no API key, no step dispatches a
\* heartbeat until wakatime-setup has saved one; toggle and install do not
\* make heartbeats flow meanwhile.
C11_NoHeartbeatWhileKeyMissing ==
  keyMissing => spawned = <<>>

\* C11's failing case: a turn_start that dispatched a heartbeat in a
\* session whose start found no API key, none having been saved since.
C11_Witness ==
  /\ keyMissing /\ ~isApiKeyConfigured(cfgFile)
  /\ lastEvent.kind = "turn_start" /\ spawned # <<>>

\* What the code does for C11: while the key is missing heartbeats flow
\* only after a toggle command has re-enabled tracking.
NoHeartbeatWhileKeyMissingUnlessToggled ==
  [][keyMissing /\ keyMissing' /\ lastEvent'.kind # "wakatime-toggle"
       /\ ~config.enabled => ~config'.enabled /\ spawned' = <<>>]_vars

\* The plugin identifier that names the model, as the extension's earlier
\* sendHeartbeat composed it: name/version, a space, the model.
pluginWithModel(model) == "pi-coding-agent/" \o piVersion \o " " \o model

\* C12: every dispatched heartbeat's plugin identifier is made of the fixed
\* name, the host's version and, when currentModel is defined at the
\* dispatch, the model identifier.
C12_PluginNamesModel ==
  spawned # <<>> =>
    spawned[1].plugin =
      IF IsSome(currentModel) THEN Some(pluginWithModel(Val(currentModel)))
      ELSE Some("pi-coding-agent/" \o piVersion)

\* C12's failing case: a heartbeat dispatched with a model selected whose
\* plugin identifier is the bare name and version.
C12_Witness ==
  /\ spawned # <<>> /\ currentModel = Some(modelName(ModelB))
  /\ spawned[1].plugin = Some("pi-coding-agent/" \o piVersion)

\* What the code does for C12: the plugin identifier is the name and the
\* version, whatever the model.
PluginIsNameAndVersion ==
  spawned # <<>> => spawned[1].plugin = Some("pi-coding-agent/" \o piVersion)

\* C13: dispatch is fire-and-forget.  With invocations in flight, however
\* many and however long they run, every lifecycle event and command is
\* still handled (session_start and wakatime-install unless one of them is
\* itself awaiting the installer), and a turn_start handled with the gates
\* open dispatches again.
C13_HandledWhileInFlight ==
  inFlight > 0 =>
    /\ ENABLED turn_start(MainCtx)
    /\ ENABLED session_shutdown(MainCtx)
    /\ ENABLED tool_result(ToolEvent("write", Input(ExistingFile, None, None, None)), MainCtx)
    /\ ENABLED model_select([model |-> ModelB])
    /\ ENABLED wakatime(MainCtx)
    /\ ENABLED wakatime_toggle(MainCtx)
    /\ ENABLED wakatime_setup([api_key |-> Some(WakaKey)], MainCtx, TRUE)
    /\ (startPending = None => ENABLED session_start(MainCtx))
    /\ (installPending = None => ENABLED wakatime_install(MainCtx))
    /\ (config.enabled /\ config.trackSessions /\ cliAvailable
          => ENABLED (turn_start(MainCtx) /\ spawned' # <<>>))

\* C13's case: a turn_start dispatched a heartbeat while earlier
\* invocations were still in flight, the count having reached its bound.
C13_Witness ==
  /\ lastEvent.kind = "turn_start" /\ spawned # <<>>
  /\ inFlight = MaxInFlight /\ MaxInFlight >= 2

\* C14: when session_start's initialization runs with the settings file
\* absent, unreadable or unparsable, then right after it (before the CLI
\* and API-key checks) enabled, trackFiles and trackSessions are true and
\* category is "ai coding", whatever preceded in the process.
C14_DefaultsWithoutSettings ==
  lastEvent.kind = "session_start" /\ settingsFile.t \in {"absent", "corrupt"}
    => /\ lastEvent.loaded.enabled
       /\ lastEvent.loaded.trackFiles
       /\ lastEvent.loaded.trackSessions
       /\ lastEvent.loaded.category = DefaultCategory

\* C14's failing case: a session_start with an unparsable settings file,
\* in a process where tracking had been switched off, whose loadConfig
\* left enabled false.
C14_Witness ==
  /\ lastEvent.kind = "session_start" /\ settingsFile = SettingsCorrupt
  /\ ~lastEvent.before.enabled /\ ~lastEvent.loaded.enabled

\* What the code does for C14: without a "wakatime" object to merge,
\* loadConfig leaves the configuration as the process had it.
LoadConfigKeepsConfigWithoutSettings ==
  lastEvent.kind = "session_start"
    => lastEvent.loaded = lastEvent.before

\* The branch the version-control metadata of directory dir names, if dir
\* holds any: a .git directory, or a .git file redirecting (from dir) to
\* the metadata, with a HEAD that is a branch reference.
metadataBranch(fsys, dir) ==
  LET gitDir == Append(dir, ".git")
      real == IF gitDir \notin DOMAIN fsys THEN None
              ELSE IF fsys[gitDir].t = "dir" THEN Some(gitDir)
              ELSE IF fsys[gitDir].c.k = "gitdir"
                THEN Some(resolve(dir, fsys[gitDir].c.to))
              ELSE None
  IN IF ~IsSome(real) THEN None
     ELSE LET headPath == Append(Val(real), "HEAD") IN
          IF headPath \in DOMAIN fsys /\ fsys[headPath].t = "file"
               /\ fsys[headPath].c.k = "ref"
            THEN Some(fsys[headPath].c.branch)
            ELSE None

RECURSIVE nearestBranch(_, _)
\* The branch of the nearest level at or above dir, the root included,
\* that holds such metadata; None when no level does.
nearestBranch(fsys, dir) ==
  LET b == metadataBranch(fsys, dir) IN
  IF IsSome(b) THEN b
  ELSE IF dir = <<>> THEN None
  ELSE nearestBranch(fsys, dirname(dir))

\* C15: for every starting directory, the branch detection of session_start
\* yields the branch of the nearest level at or above it whose metadata
\* names one (a redirect file being followed), and nothing when no level
\* holds metadata.
C15_LocatorYieldsNearestBranch ==
  lastEvent.kind = "session_start"
    => lastEvent.detected = nearestBranch(fs, lastEvent.ctx.cwd)

\* C15's failing case: a session started in a subdirectory of the
\* submodule checkout, on branch feature, for which nothing is detected.
C15_Witness ==
  /\ lastEvent.kind = "session_start" /\ fs = SubTree
  /\ lastEvent.ctx.cwd = SubSrcDir
  /\ nearestBranch(fs, SubSrcDir) = Some("feature")
  /\ lastEvent.detected = None

\* What the code does for C15: the branch is found from the directory that
\* holds the .git entry itself, and from any directory below a .git
\* directory or a .git file with an absolute redirect, except at the root.
LocatorYieldsNearestBranchUnlessRelativeOrRoot ==
  /\ lastEvent.kind = "session_start"
  /\ fs \in {BaseTree, WorktreeTree}
     \/ (fs = SubTree /\ lastEvent.ctx.cwd # SubSrcDir)
  => lastEvent.detected = nearestBranch(fs, lastEvent.ctx.cwd)

\* C16: a heartbeat dispatched for a write or edit tool_result carries the
\* write flag; one dispatched for a read tool_result or for session start,
\* turn start or shutdown does not.
C16_WriteFlagIffWriteOrEdit ==
  spawned # <<>> =>
    (spawned[1].write <=>
       lastEvent.kind = "tool_result" /\ LastTool \in {"write", "edit"})

\* C16's case: an edit tool_result dispatched a heartbeat with the flag.
C16_Witness ==
  /\ lastEvent.kind = "tool_result" /\ LastTool = "edit"
  /\ spawned # <<>> /\ spawned[1].write

\* The last step was the end of a session_start handler: one that ran
\* through without waiting for the installer, or its resumption.
SessionStartCompleted ==
  \/ lastEvent.kind = "session_start" /\ startPending = None
  \/ lastEvent.kind = "session_start_resume"

\* C17: when the session_start handler completes with no API key in the
\* credentials file, enabled is false, whether the CLI was there, was
\* installed by the handler, or could not be installed.
C17_DisabledWithoutKey ==
  SessionStartCompleted /\ ~isApiKeyConfigured(cfgFile) => ~config.enabled

\* C17's failing case: the installer failed, no credentials file exists,
\* and the handler ended with tracking enabled.
C17_Witness ==
  /\ lastEvent.kind = "session_start_resume" /\ ~lastEvent.installed
  /\ cfgFile = None /\ config.enabled

\* What the code does for C17: enabled is forced to false when the handler
\* found the CLI or its own installer call succeeded.
DisabledWithoutKeyUnlessInstallFailed ==
  /\ SessionStartCompleted /\ ~isApiKeyConfigured(cfgFile)
  /\ lastEvent.kind = "session_start_resume" => lastEvent.installed
  => ~config.enabled

\* The last step was a session_start handler reaching its API-key check:
\* it found the CLI, or its installer call succeeded.
SessionStartPassedCli ==
  \/ lastEvent.kind = "session_start" /\ startPending = None
  \/ lastEvent.kind = "session_start_resume" /\ lastEvent.installed

\* The heartbeats of a session-level dispatch: one, of type app, for the
\* working directory.
IsAppHeartbeat(sp, cwd) ==
  /\ Len(sp) = 1
  /\ sp[1].entity = cwd /\ sp[1].entityType = Some("app")

\* C18 as stated: the session_start handler dispatches exactly one app
\* heartbeat for the working directory if trackSessions is true, the CLI
\* is available and the API key is configured, and none otherwise.
C18_StartHeartbeatIff_AnyEnabled ==
  lastEvent.kind \in {"session_start", "session_start_resume"} =>
    IF SessionStartPassedCli /\ isApiKeyConfigured(cfgFile) /\ config.trackSessions
      THEN IsAppHeartbeat(spawned, lastEvent.ctx.cwd)
      ELSE spawned = <<>>

\* C18 amended: the same, with enabled true after initialization as a
\* further condition of the dispatch.
C18_StartHeartbeatIff ==
  lastEvent.kind \in {"session_start", "session_start_resume"} =>
    IF /\ SessionStartPassedCli /\ isApiKeyConfigured(cfgFile)
       /\ config.enabled /\ config.trackSessions
      THEN IsAppHeartbeat(spawned, lastEvent.ctx.cwd)
      ELSE spawned = <<>>

\* C18's case: the handler installed the CLI and then dispatched.
C18_Witness ==
  /\ lastEvent.kind = "session_start_resume" /\ lastEvent.installed
  /\ IsAppHeartbeat(spawned, lastEvent.ctx.cwd)

\* C19: a turn_start and a session_shutdown each dispatch exactly one app
\* heartbeat for the working directory when enabled, trackSessions and
\* cliAvailable are true, and none when enabled or trackSessions is false,
\* whatever trackFiles is.
C19_SessionBeats ==
  lastEvent.kind \in {"turn_start", "session_shutdown"} =>
    /\ (config.enabled /\ config.trackSessions /\ cliAvailable)
         => IsAppHeartbeat(spawned, lastEvent.ctx.cwd)
    /\ (~config.enabled \/ ~config.trackSessions) => spawned = <<>>

\* C19's case: a session_shutdown dispatched its heartbeat with file
\* tracking switched off.
C19_Witness ==
  /\ lastEvent.kind = "session_shutdown" /\ ~config.trackFiles
  /\ IsAppHeartbeat(spawned, lastEvent.ctx.cwd)

C21_AtMostOneHeartbeat ==
  /\ Len(spawned) <= 1
  /\ lastEvent.kind \in {"model_select", "wakatime", "wakatime-toggle",
                         "wakatime-setup", "wakatime-install",
                         "wakatime-install_resume"}
       => spawned = <<>>
  /\ (lastEvent.kind = "session_start" /\ startPending # None) => spawned = <<>>

\* C21's case: a model_select handled with every gate open, which
\* dispatched nothing.
C21_Witness ==
  /\ lastEvent.kind = "model_select"
  /\ config.enabled /\ config.trackSessions /\ config.trackFiles /\ cliAvailable
  /\ isApiKeyConfigured(cfgFile) /\ spawned = <<>>

\* The model information the step's event carried (primed: the event the
\* step handled): that of a model_select, or the descriptor in the context
\* of a session_start, turn_start, tool_result or session_shutdown.
CarriedModel ==
  IF lastEvent'.kind = "model_select" THEN Some(modelName(lastEvent'.event.model))
  ELSE IF lastEvent'.kind \in {"session_start", "turn_start", "tool_result",
                               "session_shutdown"}
    THEN IF IsSome(lastEvent'.ctx.model)
           THEN Some(modelName(Val(lastEvent'.ctx.model))) ELSE None
  ELSE None

\* Was the step's event handled past the handler's gate, in the state the
\* step started from?
PastGate ==
  CASE lastEvent'.kind \in {"turn_start", "session_shutdown"}
         -> config.enabled /\ config.trackSessions
    [] lastEvent'.kind = "tool_result" -> config.enabled /\ config.trackFiles
    [] OTHER -> TRUE

\* C22 as stated: currentModel is the identifier carried by the most
\* recent event that carried model information, whatever the gates were
\* when it was handled: such an event sets it, no other step changes it.
C22_ModelIsLastCarried_AnyGates ==
  [][currentModel' = IF IsSome(CarriedModel) THEN CarriedModel
                     ELSE currentModel]_vars

\* C22 amended: the same over the events handled past their gate (a
\* model_select and a session_start always; a turn_start or
\* session_shutdown with enabled and trackSessions; a tool_result with
\* enabled and trackFiles).
C22_ModelIsLastCarried ==
  [][currentModel' = IF IsSome(CarriedModel) /\ PastGate THEN CarriedModel
                     ELSE currentModel]_vars

\* C22's case: the result of an untracked tool, handled with file tracking
\* on, set the model its context carried over the one selected before.
C22_Witness ==
  /\ lastEvent.kind = "tool_result" /\ LastTool = "bash"
  /\ config.enabled /\ config.trackFiles /\ ~config.trackSessions
  /\ lastEvent.ctx.model = Some(ModelA)
  /\ currentModel = Some(modelName(ModelA))

\* C23: the completion of a heartbeat invocation, however it ended, leaves
\* every session-state field unchanged and spawns no invocation.
C23_CompletionChangesNothing ==
  [][lastEvent'.kind = "heartbeat_done" =>
       UNCHANGED <<config, currentModel, currentProject, currentBranch,
                   cliAvailable>> /\ spawned' = <<>>]_vars

\* C23's case: an invocation has called back in a session with tracking
\* on, a branch and a model.
C23_Witness ==
  /\ lastEvent.kind = "heartbeat_done"
  /\ config.enabled /\ cliAvailable
  /\ currentBranch = Some("main") /\ IsSome(currentModel)

\* Only callbacks of invocations follow: no event or command arrives.
OnlyCallbacks == [][lastEvent'.kind = "heartbeat_done"]_vars

\* C24: every invocation is spawned with a bounded timeout; and under
\* fairness, once events stop arriving, the invocations in flight run out
\* and none is in flight from then on.
C24_InFlightDrains ==
  /\ [](spawned # <<>> => spawned[1].timeout = Some(HeartbeatTimeout))
  /\ <>OnlyCallbacks => <>[](inFlight = 0)

\* C24's case: as many invocations in flight as the count tells apart.
C24_Witness ==
  inFlight = MaxInFlight /\ spawned # <<>>

\* C25: the status command reports the state at the call: its CLI line
\* agrees with whether the binary is on disk, and its API-key line with the
\* content of the credentials file.
C25_StatusIsLive ==
  lastEvent.kind = "wakatime" /\ IsSome(lastEvent.report) =>
    /\ Val(lastEvent.report).cliFound = (config.cliPath.segs \in DOMAIN fs)
    /\ Val(lastEvent.report).apiKeyConfigured = isApiKeyConfigured(cfgFile)

\* C25's failing case: in a started session the status command reports
\* the CLI found after the binary was removed.
C25_Witness ==
  /\ lastEvent.kind = "wakatime" /\ IsSome(lastEvent.report)
  /\ IsSome(currentProject)
  /\ Val(lastEvent.report).cliFound /\ config.cliPath.segs \notin DOMAIN fs

\* What the code does for C25: the CLI line is the cliAvailable flag, and
\* the API-key line is read from the file at the call.
StatusReportsFlagAndFile ==
  lastEvent.kind = "wakatime" /\ IsSome(lastEvent.report) =>
    /\ Val(lastEvent.report).cliFound = cliAvailable
    /\ Val(lastEvent.report).apiKeyConfigured = isApiKeyConfigured(cfgFile)

\* C26: the initialization of a session start resets currentModel: right
\* after loadConfig, before the refresh from the event's own context, no
\* model is held.
C26_InitResetsModel ==
  lastEvent.kind = "session_start" => lastEvent.loadedModel = None

\* C26's failing case: a session start whose context carries no model,
\* after a model_select, still holds the selected model after loadConfig
\* and at the end of the handler.
C26_Witness ==
  /\ lastEvent.kind = "session_start"
  /\ lastEvent.ctx = NoModelCtx
  /\ lastEvent.loadedModel = Some(modelName(ModelB))
  /\ currentModel = lastEvent.loadedModel

\* What the code does for C26: loadConfig leaves currentModel as it was.
LoadConfigKeepsModel ==
  [][lastEvent'.kind = "session_start" =>
       lastEvent'.loadedModel = currentModel]_vars

\* C27: after every session-start initialization currentBranch is what the
\* Repository Locator yields for the session's working directory, absent
\* when it finds no branch.
C27_BranchIsDetected ==
  lastEvent.kind = "session_start" => currentBranch = lastEvent.detected

\* C27's failing case: a session start in a directory outside every
\* repository, after one that found a branch, keeps the earlier branch.
C27_Witness ==
  /\ lastEvent.kind = "session_start"
  /\ lastEvent.ctx.cwd = PlainDir
  /\ lastEvent.detected = None
  /\ IsSome(currentBranch)

\* What the code does for C27: a detected branch is stored, and when none
\* is detected currentBranch is left as it was.
BranchIsDetectedOrKept ==
  [][lastEvent'.kind = "session_start" =>
       currentBranch' = IF IsSome(lastEvent'.detected)
                        THEN lastEvent'.detected
                        ELSE currentBranch]_vars

\* C28: currentProject and currentBranch are written only by the
\* session-start initialization: every other step leaves both as they
\* were, and a heartbeat carries the two as its project and branch.
C28_ProjectAndBranchFrame ==
  [][/\ lastEvent'.kind # "session_start" =>
          currentProject' = currentProject /\ currentBranch' = currentBranch
     /\ spawned' # <<>> =>
          /\ spawned'[1].project =
               (IF Truthy(currentProject') THEN currentProject' ELSE None)
          /\ spawned'[1].branch =
               (IF Truthy(currentBranch') THEN currentBranch' ELSE None)]_vars

\* C28's case: a turn in the main directory, in a session started in the
\* submodule on branch feature, sends the session's project and branch.
C28_Witness ==
  /\ lastEvent.kind = "turn_start"
  /\ lastEvent.ctx.cwd = ProjectDir
  /\ spawned # <<>>
  /\ spawned[1].project = Some(basename(SubDir))
  /\ spawned[1].branch = Some("feature")

\* C29: no heartbeat is dispatched before a session-start initialization
\* has run: at every dispatch currentProject is defined.
C29_NoDispatchBeforeInit ==
  spawned # <<>> => IsSome(currentProject)

\* C29's failing case: a turn dispatches a heartbeat with no project,
\* the install command having run before any session start.
C29_Witness ==
  /\ lastEvent.kind = "turn_start"
  /\ spawned # <<>>
  /\ currentProject = None
  /\ spawned[1].project = None

\* What the code does for C29: a heartbeat is dispatched only once the
\* CLI has been found or installed.
DispatchOnlyWithCli ==
  spawned # <<>> => cliAvailable

RECURSIVE metadataLevel(_, _)
\* The nearest level at or above dir, the root included, that holds a
\* .git entry of any kind; None when no level does.
metadataLevel(fsys, dir) ==
  IF Append(dir, ".git") \in DOMAIN fsys THEN Some(dir)
  ELSE IF dir = <<>> THEN None
  ELSE metadataLevel(fsys, dirname(dir))

\* The session start just handled began at or below a level whose .git
\* entry yields no branch.
ExtractionFailed ==
  /\ lastEvent.kind = "session_start"
  /\ IsSome(metadataLevel(fs, lastEvent.ctx.cwd))
  /\ metadataBranch(fs, Val(metadataLevel(fs, lastEvent.ctx.cwd))) = None

\* The .git entry of that level is a file that is not a redirect.
MalformedRedirect ==
  LET e == fs[Append(Val(metadataLevel(fs, lastEvent.ctx.cwd)), ".git")] IN
  e.t = "file" /\ e.c.k # "gitdir"

\* C30: the locator stops at the first level that holds a .git entry: when
\* no branch can be extracted there (a malformed redirect file, HEAD
\* missing or not a branch reference), nothing is detected, whatever the
\* levels above hold.
C30_LocatorStopsAtFirstEntry ==
  ExtractionFailed => lastEvent.detected = None

\* C30's failing case: sub/.git is a file that is not a redirect, and a
\* session started in sub/ detects the branch of the project above it.
C30_Witness ==
  /\ ExtractionFailed /\ MalformedRedirect
  /\ lastEvent.ctx.cwd = SubDir
  /\ lastEvent.detected = Some("main")

\* What the code does for C30: the search stops at a .git directory and at
\* a redirect file, and goes on upwards past any other .git file.
LocatorStopsUnlessMalformed ==
  ExtractionFailed =>
    lastEvent.detected =
      (IF MalformedRedirect
         THEN nearestBranch(fs, lastEvent.ctx.cwd) ELSE None)

\* C31: every AI line-change count passed to the CLI is an integer of at
\* least 1, and only heartbeats dispatched for write or edit tool results
\* carry one: those for reads and for the session never do.
C31_CountIsPositiveOnWrites ==
  spawned # <<>> /\ IsSome(spawned[1].aiLineChanges) =>
    /\ Val(spawned[1].aiLineChanges) \in Nat
    /\ Val(spawned[1].aiLineChanges) >= 1
    /\ lastEvent.kind = "tool_result" /\ LastTool \in {"write", "edit"}

\* C31's case: an edit between two texts of two lines each dispatched a
\* heartbeat whose count is the floor 1.
C31_Witness ==
  /\ lastEvent.kind = "tool_result" /\ LastTool = "edit"
  /\ LastInput.oldText = Some(<<"a", NL>>) /\ LastInput.newText = Some(<<NL, "a">>)
  /\ spawned # <<>> /\ spawned[1].aiLineChanges = Some(1)

\* C31's other side: read and session-level heartbeats are dispatched, and
\* without a count.
ReadHeartbeatWithoutCount ==
  /\ lastEvent.kind = "tool_result" /\ LastTool = "read"
  /\ spawned # <<>> /\ spawned[1].aiLineChanges = None

\* C32: while the session_start handler is suspended at the installer, no
\* interleaved handler or command dispatches a heartbeat, the install
\* command running and completing in between included.
C32_NoDispatchWhileSuspended ==
  startPending # None => spawned = <<>>

\* C32's failing case: with session_start still suspended, the install
\* command has completed and a turn dispatches a heartbeat.
C32_Witness ==
  /\ startPending # None
  /\ lastEvent.kind = "turn_start"
  /\ cliAvailable
  /\ spawned # <<>>

\* What the code does for C32: while session_start is suspended the CLI
\* flag is false until an install command completes with success, and
\* nothing is dispatched while it is false.
SuspendedDispatchOnlyAfterInstall ==
  [][startPending' # None =>
       /\ lastEvent'.kind = "session_start" => ~cliAvailable'
       /\ lastEvent'.kind \notin {"session_start", "wakatime-install_resume"}
            => cliAvailable' = cliAvailable
       /\ ~cliAvailable' => spawned' = <<>>]_vars

=============================================================================
